---- MODULE Spec2Model ----
(***************************************************************************)
(* A model of torch/csrc/cupti_tracer.cpp: the process-wide Tracer, the    *)
(* CUptiManager that receives the provider's buffer callbacks, and the     *)
(* CUPTI provider as far as the code's calls and callbacks observe it.     *)
(*                                                                         *)
(* One application thread constructs the Tracer (Get) and calls start(),   *)
(* stop() and get_records(); start() and stop() advance one provider call  *)
(* at a time.  Each buffer the provider requested is completed by its own  *)
(* invocation of BufferCompleted, on the provider's threads: invocations   *)
(* for different buffers interleave with each other and with the           *)
(* application thread.  records_ is a std::vector written without a lock,  *)
(* so push_back is modelled by its memory accesses: the read of the end    *)
(* position, the write of the element (in two parts) and the write of the  *)
(* new end position.                                                       *)
(***************************************************************************)
EXTENDS Integers, Sequences, FiniteSets, TLC

VARIABLES
    op,          \* the application thread: "unborn" | "init" (inside Initialize) | "idle" |
                 \* "drain" (inside the flush of stop()); after exit(-1), the function
                 \* that exited: "start" | "stop"
    ci,          \* inside Initialize, the index of its next statement; else the index of
                 \* the latest provider call of the latest start()/stop()
    ncalls,      \* start()/stop()/get_records() calls made so far
    tstate,      \* the Tracer's session state: "Created" | "Active" | "Stopped"
    aborted,     \* exit(-1) was called
    lastStatus,  \* status returned by the latest provider call of the application thread
    tracer_,     \* CUptiManager::tracer_: "unset" | "tracer"
    registered,  \* the provider holds BufferRequested/BufferCompleted
    enabled,     \* activity kinds enabled in the provider
    subscribed,  \* the provider has a callback subscriber
    subscriber_, \* Tracer::subscriber_: "uninit" | "h1"
    cbEnabled,   \* callback ids enabled for the subscriber
    data,        \* storage of records_ (slots written so far)
    finish,      \* end position of records_ (its size)
    got,         \* value returned by the latest get_records(), or NoResult
    bufs,        \* per buffer: its place in the request/complete exchange
    flushing,    \* buffers the running cuptiActivityFlushAll delivers before it returns
    delivered,   \* the Records handed to push_back so far, in the order push_back began
    nrecs,       \* raw records the provider's cursor has yielded so far
    nskip,       \* those of them whose kind the switch of ActivityCallback has no case for
    decIn,       \* SpecDecode: the raw record given to ActivityCallback
    decOut,      \* SpecDecode: the Records it pushed, or NoResult before the call
    pool,        \* SpecPool: per outstanding request, the block, the pointer handed to
                 \* the provider and the progress of the buffer's completion
    corrupt      \* SpecPool: free() was given a pointer malloc never returned

vars == <<op, ci, ncalls, tstate, aborted, lastStatus, tracer_, registered, enabled,
          subscribed, subscriber_, cbEnabled, data, finish, got, bufs, flushing,
          delivered, nrecs, nskip, decIn, decOut, pool, corrupt>>

(***************************************************************************)
(* Bounds of the model.                                                    *)
(***************************************************************************)
MaxBuffers == 2
MaxRecs == 2
MaxCalls == 3
MaxRaw == 2

Buffers == 1..MaxBuffers

(***************************************************************************)
(* Provider statuses and the CUPTI_CALL macro.                             *)
(***************************************************************************)
CUPTI_SUCCESS == "CUPTI_SUCCESS"
CUPTI_ERROR_MAX_LIMIT_REACHED == "CUPTI_ERROR_MAX_LIMIT_REACHED"
CUPTI_ERROR == "CUPTI_ERROR_OTHER"
Statuses == {CUPTI_SUCCESS, CUPTI_ERROR}

\* CUPTI_CALL(call): TRUE when the macro calls exit(-1).
CUPTI_CALL(status) == status # CUPTI_SUCCESS

(***************************************************************************)
(* Activity kinds.  start() enables StartKinds; the decoder recognizes     *)
(* four kinds, one of which (CONCURRENT_KERNEL) start() does not enable.   *)
(***************************************************************************)
KIND_CONTEXT == "CUPTI_ACTIVITY_KIND_CONTEXT"
KIND_DRIVER == "CUPTI_ACTIVITY_KIND_DRIVER"
KIND_RUNTIME == "CUPTI_ACTIVITY_KIND_RUNTIME"
KIND_MEMCPY == "CUPTI_ACTIVITY_KIND_MEMCPY"
KIND_MEMSET == "CUPTI_ACTIVITY_KIND_MEMSET"
KIND_NAME == "CUPTI_ACTIVITY_KIND_NAME"
KIND_MARKER == "CUPTI_ACTIVITY_KIND_MARKER"
KIND_KERNEL == "CUPTI_ACTIVITY_KIND_KERNEL"
KIND_OVERHEAD == "CUPTI_ACTIVITY_KIND_OVERHEAD"
KIND_CONCURRENT_KERNEL == "CUPTI_ACTIVITY_KIND_CONCURRENT_KERNEL"

AllKinds == {KIND_CONTEXT, KIND_DRIVER, KIND_RUNTIME, KIND_MEMCPY, KIND_MEMSET,
             KIND_NAME, KIND_MARKER, KIND_KERNEL, KIND_OVERHEAD, KIND_CONCURRENT_KERNEL}

\* The kinds the switch of ActivityCallback has a case for.
RecognizedKinds == {KIND_DRIVER, KIND_RUNTIME, KIND_KERNEL, KIND_CONCURRENT_KERNEL}

(***************************************************************************)
(* A raw activity record as the provider lays it out.  The host-API layout *)
(* (CUpti_ActivityAPI) carries processId and threadId, the kernel layout   *)
(* (CUpti_ActivityKernel4) carries deviceId, contextId, streamId and name; *)
(* one record type holds the fields of both.                               *)
(***************************************************************************)
Raw(k, nm, s, e, pid, tid, dev, ctx, str, corr) ==
    [kind |-> k, name |-> nm, start |-> s, end |-> e, processId |-> pid,
     threadId |-> tid, deviceId |-> dev, contextId |-> ctx, streamId |-> str,
     correlationId |-> corr]

\* Tracer::Record.
Record(k, nm, s, e, a, b, corr) ==
    [kind |-> k, name |-> nm, start |-> s, end |-> e, processId |-> a,
     threadId |-> b, correlationId |-> corr]

(***************************************************************************)
(* Tracer::ActivityCallback: the Records the switch pushes for one raw     *)
(* record (one, or none when no case matches).                             *)
(***************************************************************************)
\* A variant that gives both kernel kinds the same tag.
KernelKindString_oneTag(kind) == "KERNEL"

KernelKindString(kind) == IF kind = KIND_KERNEL THEN "KERNEL" ELSE "CONC KERNEL"

\* A variant whose switch has a default case that pushes a Record.
ActivityCallback_default(record) ==
    CASE record.kind = KIND_DRIVER ->
           <<Record("DRIVER", "", record.start, record.end,
                    record.processId, record.threadId, record.correlationId)>>
      [] record.kind = KIND_RUNTIME ->
           <<Record("RUNTIME", "", record.start, record.end,
                    record.processId, record.threadId, record.correlationId)>>
      [] record.kind \in {KIND_KERNEL, KIND_CONCURRENT_KERNEL} ->
           <<Record(KernelKindString(record.kind), record.name, record.start, record.end,
                    record.deviceId, record.streamId, record.correlationId)>>
      [] OTHER ->
           <<Record("OTHER", "", record.start, record.end,
                    record.processId, record.threadId, record.correlationId)>>

ActivityCallback(record) ==
    CASE record.kind = KIND_DRIVER ->
           <<Record("DRIVER", "", record.start, record.end,
                    record.processId, record.threadId, record.correlationId)>>
      [] record.kind = KIND_RUNTIME ->
           <<Record("RUNTIME", "", record.start, record.end,
                    record.processId, record.threadId, record.correlationId)>>
      [] record.kind \in {KIND_KERNEL, KIND_CONCURRENT_KERNEL} ->
           <<Record(KernelKindString(record.kind), record.name, record.start, record.end,
                    record.deviceId, record.streamId, record.correlationId)>>
      [] OTHER -> <<>>

(***************************************************************************)
(* Raw records the provider delivers in the session model: one runtime-API *)
(* record, one kernel record and one memcpy record (a kind start() enables *)
(* and the decoder has no case for).  A record's end timestamp is not      *)
(* before its start timestamp.                                             *)
(***************************************************************************)
RawRuntime == Raw(KIND_RUNTIME, "", 100, 150, 1, 7, 9, 9, 9, 42)
RawKernel == Raw(KIND_KERNEL, "matmul", 160, 300, 9, 9, 0, 5, 3, 42)
RawMemcpy == Raw(KIND_MEMCPY, "", 310, 320, 9, 9, 0, 5, 3, 43)
RawSamples == {RawRuntime, RawKernel, RawMemcpy}

(***************************************************************************)
(* The provider calls of start() and of stop(), in program order.          *)
(***************************************************************************)
Call(f, a) == [fn |-> f, arg |-> a]

StartCalls ==
    << Call("cuptiActivityEnable", KIND_CONTEXT),
       Call("cuptiActivityEnable", KIND_DRIVER),
       Call("cuptiActivityEnable", KIND_RUNTIME),
       Call("cuptiActivityEnable", KIND_MEMCPY),
       Call("cuptiActivityEnable", KIND_MEMSET),
       Call("cuptiActivityEnable", KIND_NAME),
       Call("cuptiActivityEnable", KIND_MARKER),
       Call("cuptiActivityEnable", KIND_KERNEL),
       Call("cuptiActivityEnable", KIND_OVERHEAD),
       Call("cuptiSubscribe", "APICallback"),
       Call("cuptiEnableCallback", "DRIVER_cuLaunchKernel"),
       Call("cuptiEnableCallback", "DRIVER_cuLaunchKernel_ptsz"),
       Call("cuptiEnableCallback", "RUNTIME_cudaLaunch_v3020") >>

\* A variant of stop() that disables the kinds in the reverse of start()'s order.
StopCalls_reversed ==
    << Call("cuptiActivityDisable", KIND_OVERHEAD),
       Call("cuptiActivityDisable", KIND_KERNEL),
       Call("cuptiActivityDisable", KIND_MARKER),
       Call("cuptiActivityDisable", KIND_NAME),
       Call("cuptiActivityDisable", KIND_MEMSET),
       Call("cuptiActivityDisable", KIND_MEMCPY),
       Call("cuptiActivityDisable", KIND_RUNTIME),
       Call("cuptiActivityDisable", KIND_DRIVER),
       Call("cuptiActivityDisable", KIND_CONTEXT),
       Call("cuptiUnsubscribe", "subscriber_"),
       Call("cuptiActivityFlushAll", "0") >>

\* A variant of stop() whose first line was copied from start() and still enables.
StopCalls_enable ==
    << Call("cuptiActivityEnable", KIND_CONTEXT),
       Call("cuptiActivityDisable", KIND_DRIVER),
       Call("cuptiActivityDisable", KIND_RUNTIME),
       Call("cuptiActivityDisable", KIND_MEMCPY),
       Call("cuptiActivityDisable", KIND_MEMSET),
       Call("cuptiActivityDisable", KIND_NAME),
       Call("cuptiActivityDisable", KIND_MARKER),
       Call("cuptiActivityDisable", KIND_KERNEL),
       Call("cuptiActivityDisable", KIND_OVERHEAD),
       Call("cuptiUnsubscribe", "subscriber_"),
       Call("cuptiActivityFlushAll", "0") >>

StopCalls ==
    << Call("cuptiActivityDisable", KIND_CONTEXT),
       Call("cuptiActivityDisable", KIND_DRIVER),
       Call("cuptiActivityDisable", KIND_RUNTIME),
       Call("cuptiActivityDisable", KIND_MEMCPY),
       Call("cuptiActivityDisable", KIND_MEMSET),
       Call("cuptiActivityDisable", KIND_NAME),
       Call("cuptiActivityDisable", KIND_MARKER),
       Call("cuptiActivityDisable", KIND_KERNEL),
       Call("cuptiActivityDisable", KIND_OVERHEAD),
       Call("cuptiUnsubscribe", "subscriber_"),
       Call("cuptiActivityFlushAll", "0") >>

\* The kinds start() enables.
StartKinds == {StartCalls[i].arg : i \in {j \in 1..Len(StartCalls) :
                                           StartCalls[j].fn = "cuptiActivityEnable"}}

(***************************************************************************)
(* The provider's side of a call.  Enabling and disabling a kind are       *)
(* idempotent toggles; the provider holds at most one subscriber, refuses  *)
(* a second subscription, and refuses a handle that is not its             *)
(* subscriber's.  Any call may also fail for a reason of the provider's.   *)
(* ps is the state the calls act on: the provider's enabled kinds,         *)
(* subscriber and enabled callbacks, and the Tracer's subscriber_ field.   *)
(***************************************************************************)
ProvNow ==
    [enabled |-> enabled, subscribed |-> subscribed, subscriber_ |-> subscriber_,
     cbEnabled |-> cbEnabled]

ProviderAccepts(call, ps) ==
    CASE call.fn = "cuptiSubscribe" -> ~ps.subscribed
      [] call.fn = "cuptiUnsubscribe" -> ps.subscribed /\ ps.subscriber_ = "h1"
      [] call.fn = "cuptiEnableCallback" -> ps.subscribed /\ ps.subscriber_ = "h1"
      [] OTHER -> TRUE

ProviderAfter(call, ps) ==
    CASE call.fn = "cuptiActivityEnable" ->
           [ps EXCEPT !.enabled = @ \cup {call.arg}]
      [] call.fn = "cuptiActivityDisable" ->
           [ps EXCEPT !.enabled = @ \ {call.arg}]
      [] call.fn = "cuptiSubscribe" ->
           [ps EXCEPT !.subscribed = TRUE, !.subscriber_ = "h1"]
      [] call.fn = "cuptiUnsubscribe" ->
           [ps EXCEPT !.subscribed = FALSE, !.cbEnabled = {}]
      [] call.fn = "cuptiEnableCallback" ->
           [ps EXCEPT !.cbEnabled = @ \cup {call.arg}]
      [] OTHER -> ps

\* The state after calls[i..j], each returning CUPTI_SUCCESS.
RECURSIVE AfterCalls(_, _, _, _)
AfterCalls(calls, i, j, ps) ==
    IF i > j THEN ps ELSE AfterCalls(calls, i + 1, j, ProviderAfter(calls[i], ps))

\* Whether the provider accepts each of calls[i..j] in the state it is made in.
RECURSIVE Accepted(_, _, _, _)
Accepted(calls, i, j, ps) ==
    IF i > j
    THEN TRUE
    ELSE /\ ProviderAccepts(calls[i], ps)
         /\ Accepted(calls, i + 1, j, ProviderAfter(calls[i], ps))

(***************************************************************************)
(* The ways a run of calls, each under CUPTI_CALL, can go: calls[1..k-1]   *)
(* return CUPTI_SUCCESS and calls[k] returns status; a status other than   *)
(* CUPTI_SUCCESS ends the run (and the process) at calls[k].  ps is the    *)
(* state the run leaves.                                                   *)
(***************************************************************************)
Outcomes(calls) ==
    { o \in [k : 1..Len(calls), status : Statuses] :
        /\ Accepted(calls, 1, o.k - 1, ProvNow)
        /\ o.status = CUPTI_SUCCESS =>
             /\ o.k = Len(calls)
             /\ ProviderAccepts(calls[o.k], AfterCalls(calls, 1, o.k - 1, ProvNow)) }

StateAfter(calls, o) ==
    AfterCalls(calls, 1, IF o.status = CUPTI_SUCCESS THEN o.k ELSE o.k - 1, ProvNow)

(***************************************************************************)
(* records_ and the buffers.                                               *)
(***************************************************************************)
\* No Record has an empty kind: NoRecord marks a slot not yet written, and NoResult
\* a call not yet made.
NoRecord == Record("", "", 0, 0, 0, 0, 0)
NoResult == <<NoRecord>>

\* The value of the vector records_: the slots before its end position.
records_ == SubSeq(data, 1, finish)

\* Tracer::get_records returns a copy of records_.
get_records == records_

NewBuffer == [pc |-> "unused", rec |-> NoRecord, f |-> 0]

InFlight == {b \in Buffers : bufs[b].pc = "inflight"}
Completing == {b \in Buffers : bufs[b].pc \in {"next", "push"}}
Released == {b \in Buffers : bufs[b].pc = "released"}

\* A variant in which the constructor already enables the kinds of start().
CtorEnabled_start == StartKinds

\* Tracer::Tracer enables nothing: tracing starts with start().
CtorEnabled == {}

\* A request slot before InternalBufferRequested has run for it.
NULL == 0
NoRequest ==
    [pc |-> "unused", bfr |-> NULL, buffer |-> NULL, size |-> 0, maxNumRecords |-> 0,
     total |-> 0, left |-> 0, decoded |-> 0, status |-> "none", freed |-> <<>>]

PoolStart == pool = [b \in Buffers |-> NoRequest] /\ corrupt = FALSE

NoRaw == Raw("", "", 0, 0, 0, 0, 0, 0, 0, 0)

ProcessStart ==
    /\ op = "unborn" /\ ci = 0 /\ ncalls = 0 /\ tstate = "Created"
    /\ aborted = FALSE /\ lastStatus = CUPTI_SUCCESS
    /\ tracer_ = "unset" /\ registered = FALSE
    /\ enabled = {} /\ subscribed = FALSE /\ subscriber_ = "uninit" /\ cbEnabled = {}
    /\ data = <<>> /\ finish = 0 /\ got = NoResult
    /\ bufs = [b \in Buffers |-> NewBuffer]
    /\ flushing = {} /\ delivered = <<>> /\ nrecs = 0 /\ nskip = 0

Init == ProcessStart /\ decIn = NoRaw /\ decOut = NoResult /\ PoolStart

(***************************************************************************)
(* exit(-1) ends the process: records_, the buffers and every other piece  *)
(* of its memory are gone.  What stays is what the call that failed had    *)
(* reached (op, ci, lastStatus) and the session state.                     *)
(***************************************************************************)
Exit ==
    /\ aborted' = TRUE
    /\ data' = <<>> /\ finish' = 0 /\ got' = NoResult
    /\ bufs' = [b \in Buffers |-> NewBuffer]
    /\ flushing' = {} /\ delivered' = <<>> /\ nrecs' = 0 /\ nskip' = 0

Memory == <<data, finish, got, bufs, flushing, delivered, nrecs, nskip>>
Decoder == <<decIn, decOut>>
PoolVars == <<pool, corrupt>>
ProviderSide == <<enabled, subscribed, subscriber_, cbEnabled>>

(***************************************************************************)
(* Get(): the first use constructs the Tracer.  Tracer::Tracer takes the   *)
(* manager and calls CUptiManager::Initialize, which binds the Tracer and  *)
(* registers the buffer callbacks; the status                              *)
(* cuptiActivityRegisterCallbacks returns is not looked at.                *)
(***************************************************************************)
\* A variant of Initialize that registers the callbacks before it binds the Tracer.
InitializeOrder_registerFirst == <<"cuptiActivityRegisterCallbacks", "tracer_ = tracer">>

\* The statements of CUptiManager::Initialize, in program order.
InitializeOrder == <<"tracer_ = tracer", "cuptiActivityRegisterCallbacks">>

Construct ==
    /\ ~aborted /\ op = "unborn"
    /\ op' = "init" /\ ci' = 1
    /\ enabled' = CtorEnabled
    /\ UNCHANGED <<ncalls, tstate, aborted, lastStatus, tracer_, registered,
                   subscribed, subscriber_, cbEnabled>>
    /\ UNCHANGED Memory
    /\ UNCHANGED Decoder
    /\ UNCHANGED PoolVars

\* The next statement of CUptiManager::Initialize; after the last, Get() returns.
Initialize ==
    /\ ~aborted /\ op = "init"
    /\ IF InitializeOrder[ci] = "tracer_ = tracer"
       THEN /\ tracer_' = "tracer"
            /\ UNCHANGED <<lastStatus, registered>>
       ELSE /\ \E status \in Statuses :
                 /\ lastStatus' = status
                 /\ registered' = (status = CUPTI_SUCCESS)
            /\ UNCHANGED tracer_
    /\ IF ci < Len(InitializeOrder)
       THEN ci' = ci + 1 /\ op' = op
       ELSE ci' = 0 /\ op' = "idle"
    /\ UNCHANGED <<ncalls, tstate, aborted>>
    /\ UNCHANGED ProviderSide
    /\ UNCHANGED Memory
    /\ UNCHANGED Decoder
    /\ UNCHANGED PoolVars

(***************************************************************************)
(* Tracer::start.  Its calls are consecutive statements of the application *)
(* thread and commute with the callbacks, so they run as one step; the     *)
(* step ends in exit(-1) when a call fails.                                *)
(***************************************************************************)
Start ==
    /\ ~aborted /\ op = "idle" /\ ncalls < MaxCalls
    /\ ncalls' = ncalls + 1
    /\ \E o \in Outcomes(StartCalls) :
         LET ps == StateAfter(StartCalls, o) IN
           /\ lastStatus' = o.status
           /\ enabled' = ps.enabled /\ subscribed' = ps.subscribed
           /\ subscriber_' = ps.subscriber_ /\ cbEnabled' = ps.cbEnabled
           /\ IF CUPTI_CALL(o.status)
              THEN Exit /\ op' = "start" /\ ci' = o.k /\ tstate' = tstate
              ELSE /\ op' = "idle" /\ ci' = 0 /\ tstate' = "Active"
                   /\ aborted' = FALSE
                   /\ UNCHANGED Memory
    /\ UNCHANGED <<tracer_, registered>>
    /\ UNCHANGED Decoder
    /\ UNCHANGED PoolVars

(***************************************************************************)
(* Tracer::stop, up to the moment its last call, cuptiActivityFlushAll(0), *)
(* has been made.  The flush is not a forced one: the provider delivers,   *)
(* before the call returns, the buffers it can deliver now (some set of    *)
(* those in flight) and keeps the others.                                  *)
(***************************************************************************)
Stop ==
    /\ ~aborted /\ op = "idle" /\ ncalls < MaxCalls
    /\ ncalls' = ncalls + 1
    /\ \E o \in Outcomes(StopCalls) :
         LET ps == StateAfter(StopCalls, o) IN
           /\ lastStatus' = o.status
           /\ enabled' = ps.enabled /\ subscribed' = ps.subscribed
           /\ subscriber_' = ps.subscriber_ /\ cbEnabled' = ps.cbEnabled
           /\ IF CUPTI_CALL(o.status)
              THEN Exit /\ op' = "stop" /\ ci' = o.k
              ELSE /\ op' = "drain" /\ ci' = o.k
                   /\ aborted' = FALSE
                   /\ \E S \in SUBSET InFlight : flushing' = S
                   /\ UNCHANGED <<data, finish, got, bufs, delivered, nrecs, nskip>>
    /\ UNCHANGED <<tstate, tracer_, registered>>
    /\ UNCHANGED Decoder
    /\ UNCHANGED PoolVars

\* cuptiActivityFlushAll returns once the buffers it delivers are completed, and
\* stop() returns: it waits for nothing else.
StopReturn ==
    /\ ~aborted /\ op = "drain"
    /\ flushing \subseteq Released
    /\ op' = "idle" /\ ci' = 0 /\ tstate' = "Stopped"
    /\ flushing' = {}
    /\ UNCHANGED <<ncalls, aborted, lastStatus, tracer_, registered>>
    /\ UNCHANGED ProviderSide
    /\ UNCHANGED <<data, finish, got, bufs, delivered, nrecs, nskip>>
    /\ UNCHANGED Decoder
    /\ UNCHANGED PoolVars

(***************************************************************************)
(* Tracer::get_records.                                                    *)
(***************************************************************************)
GetRecords ==
    /\ ~aborted /\ op = "idle" /\ ncalls < MaxCalls
    /\ got' = get_records
    /\ ncalls' = ncalls + 1
    /\ UNCHANGED <<op, ci, tstate, aborted, lastStatus, tracer_, registered>>
    /\ UNCHANGED ProviderSide
    /\ UNCHANGED <<data, finish, bufs, flushing, delivered, nrecs, nskip>>
    /\ UNCHANGED Decoder
    /\ UNCHANGED PoolVars

(***************************************************************************)
(* The provider's threads take their steps between the steps of the        *)
(* application thread.                                                     *)
(***************************************************************************)
ProviderRuns == op \in {"idle", "drain"}

FrameApp ==
    /\ UNCHANGED <<op, ci, ncalls, tstate, lastStatus, tracer_, registered>>
    /\ UNCHANGED ProviderSide
    /\ UNCHANGED Decoder
    /\ UNCHANGED PoolVars

(***************************************************************************)
(* CUptiManager::BufferRequested / InternalBufferRequested: the provider   *)
(* asks for a buffer once some kind is enabled.  A failed malloc exits.    *)
(***************************************************************************)
BufferRequested(b) ==
    /\ ~aborted /\ ProviderRuns /\ registered /\ enabled # {}
    /\ bufs[b].pc = "unused"
    /\ \A c \in Buffers : c < b => bufs[c].pc # "unused"
    /\ \E bfr \in {"NULL", "block"} :
         IF bfr = "NULL"
         THEN Exit
         ELSE /\ bufs' = [bufs EXCEPT ![b].pc = "inflight"]
              /\ UNCHANGED <<aborted, data, finish, got, flushing, delivered, nrecs, nskip>>
    /\ FrameApp

(***************************************************************************)
(* records_.push_back(Record{...}) without a lock.  The element is         *)
(* constructed in the slot after the end position: first its kind, name    *)
(* and start, then its end and ids; then the end position is set to one    *)
(* past that slot.  Another thread's push_back can run in between.         *)
(***************************************************************************)
FirstPart(new, old) ==
    [old EXCEPT !.kind = new.kind, !.name = new.name, !.start = new.start]

SecondPart(new, old) ==
    [old EXCEPT !.end = new.end, !.processId = new.processId,
                !.threadId = new.threadId, !.correlationId = new.correlationId]

\* The slot at position i of the storage (unwritten when past what was written so
\* far) and the storage with that slot set to rec.
SlotAt(store, i) == IF i > Len(store) THEN NoRecord ELSE store[i]

WriteSlot(store, i, rec) ==
    IF i > Len(store) THEN Append(store, rec) ELSE [store EXCEPT ![i] = rec]

(***************************************************************************)
(* CUptiManager::BufferCompleted / InternalBufferCompleted, on a provider  *)
(* thread.  With validSize = 0 the callback is free(buffer) alone.         *)
(***************************************************************************)
BufferCompleted(b) ==
    /\ ~aborted /\ ProviderRuns /\ registered /\ tracer_ = "tracer"
    /\ bufs[b].pc = "inflight"
    /\ \E validSize \in {0, 1} :
         bufs' = [bufs EXCEPT ![b].pc = IF validSize > 0 THEN "next" ELSE "released"]
    /\ UNCHANGED <<aborted, data, finish, got, flushing, delivered, nrecs, nskip>>
    /\ FrameApp

\* cuptiActivityGetNextRecord returns CUPTI_SUCCESS and a record: ActivityCallback
\* runs; when it pushes a Record, push_back reads the end position of records_
\* and begins to construct the element there.
NextRecordSuccess(b) ==
    /\ ~aborted /\ ProviderRuns /\ bufs[b].pc = "next"
    /\ nrecs < MaxRecs
    /\ nrecs' = nrecs + 1
    /\ \E record \in RawSamples :
         LET out == ActivityCallback(record) IN
           /\ nskip' = IF record.kind \in RecognizedKinds THEN nskip ELSE nskip + 1
           /\ IF out = <<>>
              THEN UNCHANGED <<bufs, delivered, data>>
              ELSE /\ bufs' = [bufs EXCEPT ![b] = [pc |-> "push", rec |-> out[1],
                                                   f |-> finish]]
                   /\ delivered' = Append(delivered, out[1])
                   /\ data' = WriteSlot(data, finish + 1,
                                      FirstPart(out[1], SlotAt(data, finish + 1)))
    /\ UNCHANGED <<aborted, finish, got, flushing>>
    /\ FrameApp

\* push_back writes the rest of the element and the new end position, and the
\* loop goes on to the next record.
PushFinish(b) ==
    /\ ~aborted /\ ProviderRuns /\ bufs[b].pc = "push"
    /\ data' = WriteSlot(data, bufs[b].f + 1,
                       SecondPart(bufs[b].rec, SlotAt(data, bufs[b].f + 1)))
    /\ finish' = bufs[b].f + 1
    /\ bufs' = [bufs EXCEPT ![b] = [pc |-> "next", rec |-> NoRecord, f |-> 0]]
    /\ UNCHANGED <<aborted, got, flushing, delivered, nrecs, nskip>>
    /\ FrameApp

\* CUPTI_ERROR_MAX_LIMIT_REACHED: no more records in this buffer; the loop ends
\* and free(buffer) runs.
NextRecordEnd(b) ==
    /\ ~aborted /\ ProviderRuns /\ bufs[b].pc = "next"
    /\ bufs' = [bufs EXCEPT ![b].pc = "released"]
    /\ UNCHANGED <<aborted, data, finish, got, flushing, delivered, nrecs, nskip>>
    /\ FrameApp

\* Any other status: CUPTI_CALL(status) exits.
NextRecordError(b) ==
    /\ ~aborted /\ ProviderRuns /\ bufs[b].pc = "next"
    /\ CUPTI_CALL(CUPTI_ERROR)
    /\ Exit
    /\ FrameApp

Next ==
    \/ Construct
    \/ Initialize
    \/ Start
    \/ Stop
    \/ StopReturn
    \/ GetRecords
    \/ \E b \in Buffers : BufferRequested(b)
    \/ \E b \in Buffers : BufferCompleted(b)
    \/ \E b \in Buffers : NextRecordSuccess(b)
    \/ \E b \in Buffers : PushFinish(b)
    \/ \E b \in Buffers : NextRecordEnd(b)
    \/ \E b \in Buffers : NextRecordError(b)

Spec == Init /\ [][Next]_vars

(***************************************************************************)
(* The decoder on its own: ActivityCallback applied to every raw record of *)
(* RawAll, which holds every kind (the ten named in this file) with two    *)
(* values of each field the decoder copies.  The fields of the two layouts *)
(* hold different values, so that a copy from the wrong field shows.       *)
(***************************************************************************)
RawAll ==
    [kind : AllKinds, name : {"matmul", "relu"}, start : {100, 160}, end : {150, 300},
     processId : {1}, threadId : {7}, deviceId : {0}, contextId : {5}, streamId : {3},
     correlationId : {42, 43}]

DecodeInit == ProcessStart /\ decIn \in RawAll /\ decOut = NoResult /\ PoolStart

Decode ==
    /\ decOut = NoResult
    /\ decOut' = ActivityCallback(decIn)
    /\ UNCHANGED <<op, ci, ncalls, tstate, aborted, lastStatus, tracer_, registered,
                   enabled, subscribed, subscriber_, cbEnabled, data, finish, got, bufs,
                   flushing, delivered, nrecs, nskip, decIn>>
    /\ UNCHANGED PoolVars

SpecDecode == DecodeInit /\ [][Decode]_vars

(***************************************************************************)
(* The buffer callbacks in detail (SpecPool): the addresses of             *)
(* InternalBufferRequested and the cursor statuses and the free() of       *)
(* InternalBufferCompleted, while tracing is on.  A request slot is used   *)
(* again once its callback has returned.                                   *)
(***************************************************************************)
BUF_SIZE == 32768
ALIGN_SIZE == 8

\* A variant of the macro that adds the slack without testing the address first.
ALIGN_BUFFER_always(buffer, align) == buffer + align - (buffer % align)

\* ALIGN_BUFFER; align is a power of two, so buffer & (align-1) is buffer % align.
ALIGN_BUFFER(buffer, align) ==
    IF buffer % align # 0 THEN buffer + align - (buffer % align) ELSE buffer

\* A variant that does not test the result of malloc.
MallocFailed_unchecked(bfr) == FALSE

\* if (bfr == NULL)
MallocFailed(bfr) == bfr = NULL

\* The addresses malloc may return for request slot b: the allocator takes a part of
\* the heap that is not in use (here the slot's own), at an address that is aligned
\* to ALIGN_SIZE, just past such an address, or just before one.
Offsets == {0, 1, ALIGN_SIZE - 1}
Addresses(b) == {b * (2 * BUF_SIZE) + off : off \in Offsets}

\* The bytes of the block malloc(BUF_SIZE + ALIGN_SIZE) returned at address a, and
\* the bytes the provider may write given the pointer and size it was handed.
Block(a) == [lo |-> a, hi |-> a + BUF_SIZE + ALIGN_SIZE]
Usable(slot) == [lo |-> slot.buffer, hi |-> slot.buffer + slot.size]
Disjoint(r, q) == r.hi <= q.lo \/ q.hi <= r.lo
Inside(r, q) == q.lo <= r.lo /\ r.hi <= q.hi

\* The request slots whose buffer the provider holds or is completing.
Outstanding == {b \in Buffers : pool[b].pc \in {"inflight", "loop"}}

\* malloc returns NULL or a block that overlaps no block in use; once the heap is
\* corrupt it may also return a block that is in use.
MallocResults(b) ==
    {NULL}
      \cup {a \in Addresses(b) :
               \A c \in Outstanding : Disjoint(Block(a), Block(pool[c].bfr))}
      \cup (IF corrupt THEN {pool[c].bfr : c \in Outstanding} ELSE {})

\* The pointers InternalBufferCompleted passes to free before it returns: free(buffer),
\* buffer being the pointer the provider was handed.
ReleaseCalls(slot) == <<slot.buffer>>

\* What free does with these pointers: it releases the block when given the block's
\* address; given another address its behaviour is undefined: the allocator ends
\* the process, or its bookkeeping is corrupt from then on.
FreeOutcomes(slot, ptrs) ==
    IF \A i \in 1..Len(ptrs) : ptrs[i] = slot.bfr
    THEN {"released"}
    ELSE {"abort", "corrupt"}

\* A variant that takes every status other than CUPTI_SUCCESS for the end of the
\* buffer.
LoopStep_errorEnds(status) == IF status = CUPTI_SUCCESS THEN "callback" ELSE "break"

\* A variant without the break: it asks the cursor again.
LoopStep_noBreak(status) ==
    IF status = CUPTI_SUCCESS THEN "callback"
    ELSE IF status = CUPTI_ERROR_MAX_LIMIT_REACHED THEN "again"
    ELSE IF CUPTI_CALL(status) THEN "exit" ELSE "again"

\* One turn of the do-while of InternalBufferCompleted, by the cursor's status.
LoopStep(status) ==
    IF status = CUPTI_SUCCESS THEN "callback"
    ELSE IF status = CUPTI_ERROR_MAX_LIMIT_REACHED THEN "break"
    ELSE IF CUPTI_CALL(status) THEN "exit" ELSE "again"

\* cuptiActivityGetNextRecord yields each raw record of the buffer once, then
\* CUPTI_ERROR_MAX_LIMIT_REACHED (unless it fails, see PoolCursorFails).
CursorStatuses(slot) ==
    IF slot.left > 0 THEN {CUPTI_SUCCESS} ELSE {CUPTI_ERROR_MAX_LIMIT_REACHED}

\* The state once Get() and start() have returned.
Tracing ==
    LET ps == AfterCalls(StartCalls, 1, Len(StartCalls),
                         [enabled |-> CtorEnabled, subscribed |-> FALSE,
                          subscriber_ |-> "uninit", cbEnabled |-> {}])
    IN  /\ op = "idle" /\ ci = 0 /\ ncalls = 1 /\ tstate = "Active"
        /\ aborted = FALSE /\ lastStatus = CUPTI_SUCCESS
        /\ tracer_ = "tracer" /\ registered = TRUE
        /\ enabled = ps.enabled /\ subscribed = ps.subscribed
        /\ subscriber_ = ps.subscriber_ /\ cbEnabled = ps.cbEnabled
        /\ data = <<>> /\ finish = 0 /\ got = NoResult
        /\ bufs = [b \in Buffers |-> NewBuffer]
        /\ flushing = {} /\ delivered = <<>> /\ nrecs = 0 /\ nskip = 0

PoolInit == Tracing /\ decIn = NoRaw /\ decOut = NoResult /\ PoolStart

FramePool ==
    /\ UNCHANGED <<op, ci, ncalls, tstate, lastStatus, tracer_, registered>>
    /\ UNCHANGED ProviderSide
    /\ UNCHANGED Memory
    /\ UNCHANGED Decoder

\* The requests that are alive: the frame of a callback that has returned is gone
\* when the next callback runs, and its slot is free for another request.
Frames == [c \in Buffers |-> IF pool[c].pc = "returned" THEN NoRequest ELSE pool[c]]

\* exit(-1) in the callback of slot b, whose fields are as in cur: the process and
\* its heap are gone, and what is kept is the request that ended it.
Exited(b, cur) ==
    [c \in Buffers |-> IF c = b THEN [cur EXCEPT !.pc = "exited"] ELSE NoRequest]

\* The end of InternalBufferCompleted for slot b, whose other fields are as in cur.
Release(b, cur) ==
    LET ptrs == ReleaseCalls(cur) IN
      \E o \in FreeOutcomes(cur, ptrs) :
        /\ pool' = IF o = "abort"
                   THEN Exited(b, [cur EXCEPT !.freed = ptrs])
                   ELSE [Frames EXCEPT ![b] = [cur EXCEPT !.freed = ptrs,
                                                        !.pc = "returned"]]
        /\ corrupt' = (corrupt \/ o = "corrupt")
        /\ aborted' = (o = "abort")

\* InternalBufferRequested.
PoolRequested(b) ==
    /\ ~aborted /\ registered /\ enabled # {}
    /\ Frames[b].pc = "unused"
    /\ \E bfr \in MallocResults(b) :
         IF MallocFailed(bfr)
         THEN /\ pool' = Exited(b, NoRequest)
              /\ aborted' = TRUE
         ELSE /\ pool' = [Frames EXCEPT ![b] =
                            [NoRequest EXCEPT !.pc = "inflight", !.bfr = bfr,
                                              !.size = BUF_SIZE,
                                              !.buffer = ALIGN_BUFFER(bfr, ALIGN_SIZE),
                                              !.maxNumRecords = 0]]
              /\ aborted' = FALSE
    /\ UNCHANGED corrupt
    /\ FramePool

\* InternalBufferCompleted up to its if (validSize > 0): the buffer holds total raw
\* records; with validSize = 0 the callback goes straight to free(buffer).  The
\* loops of two callbacks have no field of a request in common, so one callback's
\* loop is run to its end before the next callback begins.
PoolCompleted(b) ==
    /\ ~aborted /\ registered /\ tracer_ = "tracer"
    /\ pool[b].pc = "inflight"
    /\ \A c \in Buffers : pool[c].pc # "loop"
    /\ \E total \in 0..MaxRaw :
         LET validSize == IF total > 0 THEN 1 ELSE 0 IN
           IF validSize > 0
           THEN /\ pool' = [Frames EXCEPT ![b].pc = "loop", ![b].total = total,
                                          ![b].left = total]
                /\ UNCHANGED <<corrupt, aborted>>
           ELSE Release(b, pool[b])
    /\ FramePool

\* One turn of the loop of slot b when cuptiActivityGetNextRecord returned status:
\* ActivityCallback, break (and free), or CUPTI_CALL(status).
LoopTurn(b, status) ==
    /\ ~aborted /\ pool[b].pc = "loop"
    /\   LET cur == [pool[b] EXCEPT !.status = status]
             step == LoopStep(status)
         IN  CASE step = "callback" ->
                    /\ pool' = [Frames EXCEPT ![b] =
                                  [cur EXCEPT !.decoded = @ + 1,
                                              !.left = IF @ > 0 THEN @ - 1 ELSE 0]]
                    /\ UNCHANGED <<corrupt, aborted>>
               [] step = "break" -> Release(b, cur)
               [] step = "exit" ->
                    /\ pool' = Exited(b, cur)
                    /\ aborted' = TRUE
                    /\ UNCHANGED corrupt
               [] OTHER ->
                    /\ pool' = [Frames EXCEPT ![b] = cur]
                    /\ UNCHANGED <<corrupt, aborted>>
    /\ FramePool

\* A turn of the loop in which the cursor yields what the buffer holds.
PoolNextRecord(b) == \E status \in CursorStatuses(pool[b]) : LoopTurn(b, status)

\* A turn of the loop in which cuptiActivityGetNextRecord fails.
PoolCursorFails(b) == LoopTurn(b, CUPTI_ERROR)

PoolNext ==
    \/ \E b \in Buffers : PoolRequested(b)
    \/ \E b \in Buffers : PoolCompleted(b)
    \/ \E b \in Buffers : PoolNextRecord(b)
    \/ \E b \in Buffers : PoolCursorFails(b)

SpecPool == PoolInit /\ [][PoolNext]_vars

\* The thread that runs a callback keeps running it; nothing makes the cursor fail.
SpecPoolFair ==
    PoolInit /\ [][PoolNext]_vars /\ \A b \in Buffers : WF_vars(PoolNextRecord(b))

(***************************************************************************)
(* Properties of the session (under Spec) and of the decoder (under        *)
(* SpecDecode).  After exit(-1) there is no store left to speak of, so the *)
(* properties of the store are about the running process.                  *)
(***************************************************************************)
\* How many times r occurs in the sequence s.
Count(s, r) == Cardinality({i \in 1..Len(s) : s[i] = r})

Elems(s) == {s[i] : i \in 1..Len(s)}

IsPrefix(s, t) == Len(s) <= Len(t) /\ SubSeq(t, 1, Len(s)) = s

\* stop() has returned and no start() was called since.
StopReturned == ~aborted /\ op = "idle" /\ tstate = "Stopped"

\* No push_back is under way.
NoPushRunning == \A b \in Buffers : bufs[b].pc # "push"

\* Every buffer the provider requested has been completed and freed.
AllReleased == \A b \in Buffers : bufs[b].pc \in {"unused", "released"}

\* C1: once stop() has returned, no buffer is in flight any more (every buffer that
\* was in flight when stop() was called has been completed, its records stored), and
\* the number of Records does not change until the next start().
C1_StopDrains ==
    [][StopReturned => /\ InFlight = {}
                       /\ StopReturned' => finish' = finish]_vars

\* C2: the store is in buffer-arrival order: once every buffer is completed, the
\* store holds exactly the Records decoded from the recognized raw records, in the
\* order the cursor yielded them.
C2_ArrivalOrder == (~aborted /\ AllReleased) => records_ = delivered

\* C3: appending is safe under concurrent buffer-completed callbacks: whenever no
\* push_back is under way, the store holds each decoded Record exactly as often as
\* it was decoded: none lost, none duplicated, none corrupted.
C3_AppendSafe ==
    (~aborted /\ NoPushRunning) =>
        \A r \in Elems(delivered) \cup Elems(records_) :
            Count(records_, r) = Count(delivered, r)

\* C4: the store is append-only over the life of the process: the store before a
\* step is a prefix of the store after it.
C4_AppendOnly == [][~aborted' => IsPrefix(records_, records_')]_vars

\* C5: get_records() called while the Tracer is Created (before any start())
\* returns the empty sequence.
C5_EmptyBeforeStart == (tstate = "Created" /\ got # NoResult) => got = <<>>

C5_Witness == ~aborted /\ tstate = "Created" /\ registered /\ got = <<>>

\* The Record the decoder contract gives for a recognized raw record, concTag being
\* the tag of a concurrent-kernel record.
Decoded(raw, concTag) ==
    IF raw.kind \in {KIND_DRIVER, KIND_RUNTIME}
    THEN [kind |-> IF raw.kind = KIND_DRIVER THEN "DRIVER" ELSE "RUNTIME",
          name |-> "", start |-> raw.start, end |-> raw.end,
          processId |-> raw.processId, threadId |-> raw.threadId,
          correlationId |-> raw.correlationId]
    ELSE [kind |-> IF raw.kind = KIND_KERNEL THEN "KERNEL" ELSE concTag,
          name |-> raw.name, start |-> raw.start, end |-> raw.end,
          processId |-> raw.deviceId, threadId |-> raw.streamId,
          correlationId |-> raw.correlationId]

\* C6 (as amended): the decoder maps each recognized raw record to one Record:
\* host-API records copy start, end, process id, thread id and correlation id with
\* an empty name and are tagged "DRIVER" or "RUNTIME"; kernel records copy start,
\* end, device id, stream id, correlation id and the kernel name and are tagged
\* "KERNEL" (serial) or "CONC KERNEL" (concurrent).
C6_Decoder ==
    (decOut # NoResult /\ decIn.kind \in RecognizedKinds) =>
        decOut = <<Decoded(decIn, "CONC KERNEL")>>

C6_Witness ==
    /\ decIn.kind = KIND_CONCURRENT_KERNEL
    /\ decOut = <<Decoded(decIn, "CONC KERNEL")>>

\* C6 as stated: the same, a concurrent-kernel record being tagged
\* "CONCURRENT_KERNEL".
C6_Decoder_AsStated ==
    (decOut # NoResult /\ decIn.kind \in RecognizedKinds) =>
        decOut = <<Decoded(decIn, "CONCURRENT_KERNEL")>>

\* C7: a raw record of a kind the decoder has no case for produces no Record and
\* no error, and leaves alone what the other raw records produce: the step that
\* extracts it changes neither the store nor any push_back under way.
C7_UnrecognizedIgnored ==
    [][nskip' = nskip + 1 =>
          /\ ~aborted'
          /\ data' = data /\ finish' = finish
          /\ delivered' = delivered /\ bufs' = bufs]_vars

C7_Witness == ~aborted /\ nskip = 1 /\ finish = 1 /\ records_ = delivered

\* A call of the application thread, and one that is a stop().
AppCall == ncalls' = ncalls + 1
StopCall == AppCall /\ op' \in {"drain", "stop"}

C9_FailureExits == CUPTI_CALL(lastStatus) => aborted

\* C10: every Record in the store has end >= start.
C10_EndAfterStart == \A i \in 1..finish : data[i].end >= data[i].start

\* C11: every kernel Record in the store comes after a host-API Record with the
\* same correlation id.
C11_KernelAfterApi ==
    \A i \in 1..finish :
        data[i].kind \in {"KERNEL", "CONC KERNEL"} =>
            \E j \in 1..(i - 1) :
                /\ data[j].kind \in {"DRIVER", "RUNTIME"}
                /\ data[j].correlationId = data[i].correlationId

\* The number of kinds start() enables, and the kinds still enabled once the
\* first n of the given calls have disabled theirs.
NumKinds == Cardinality(StartKinds)
KindsOf(calls, from, to) == {calls[j].arg : j \in from..to}

\* A stop() called while Active exited at its disable number ci.
StopExitedAtDisable ==
    aborted /\ op = "stop" /\ tstate = "Active" /\ ci \in 1..NumKinds

\* C15 (as amended): stop() disables the kinds in the order in which start()
\* enabled them: when its disable number ci fails, the kinds start() enabled first
\* to (ci-1)th are disabled and the others are still enabled.
C15_SameOrder ==
    StopExitedAtDisable => enabled = KindsOf(StartCalls, ci, NumKinds)

C15_Witness ==
    StopExitedAtDisable /\ ci = 3 /\ enabled = StartKinds \ {KIND_CONTEXT, KIND_DRIVER}

\* C15 as stated: stop() disables the kinds in the reverse of the order in which
\* start() enabled them: when its disable number ci fails, the kinds start()
\* enabled last are disabled and the first NumKinds - (ci-1) are still enabled.
C15_ReverseOrder ==
    StopExitedAtDisable => enabled = KindsOf(StartCalls, 1, NumKinds - (ci - 1))

Handed == {b \in Buffers : pool[b].pc \in {"inflight", "loop", "returned"}}

\* C12: the address passed to free when a buffer completes is the address malloc
\* returned when the buffer was requested, whatever that address is.
C12_FreesTheBlock ==
    \A b \in Buffers :
        \A i \in 1..Len(pool[b].freed) : pool[b].freed[i] = pool[b].bfr

\* C13: every invocation of the buffer-completed callback that returns has released
\* its buffer exactly once, with validSize = 0 as well as after the loop: free was
\* called once and it released the buffer's block; until then nothing was freed.
C13_ReleasedOnce ==
    \A b \in Buffers :
        /\ pool[b].pc = "returned" =>
               /\ Len(pool[b].freed) = 1
               /\ "released" \in FreeOutcomes(pool[b], pool[b].freed)
        /\ pool[b].pc \in {"inflight", "loop"} => pool[b].freed = <<>>

\* C14: a cursor status other than CUPTI_SUCCESS and
\* CUPTI_ERROR_MAX_LIMIT_REACHED ends the process: the callback that got it has
\* exited, not returned, and nothing runs after it.
C14_CursorErrorExits ==
    \A b \in Buffers :
        pool[b].status \notin {"none", CUPTI_SUCCESS, CUPTI_ERROR_MAX_LIMIT_REACHED} =>
            aborted /\ pool[b].pc = "exited" /\ pool[b].freed = <<>>

\* The cursor failed after it had yielded a record.
C14_Witness ==
    \E b \in Buffers :
        pool[b].status = CUPTI_ERROR /\ pool[b].decoded > 0 /\ pool[b].pc = "exited"

\* C16: for every address a that malloc returned, the callback reports the
\* capacity BUF_SIZE (32768) and a pointer p that is a multiple of 8 with
\* a <= p < a + 8, so that [p, p + BUF_SIZE) lies inside the block
\* [a, a + BUF_SIZE + 8).
C16_AlignedInsideBlock ==
    \A b \in Handed :
        LET a == pool[b].bfr
            q == pool[b].buffer
        IN  /\ pool[b].size = 32768 /\ pool[b].size = BUF_SIZE
            /\ q % 8 = 0
            /\ a <= q /\ q < a + 8
            /\ a <= q /\ q + BUF_SIZE <= a + BUF_SIZE + 8

\* A block that malloc returned one byte before an aligned address.
C16_Witness ==
    \E b \in Handed :
        pool[b].bfr % ALIGN_SIZE = ALIGN_SIZE - 1 /\ pool[b].buffer = pool[b].bfr + 1

\* C17: when malloc fails the process exits: a request whose malloc returned NULL
\* has handed nothing to the provider, and every buffer handed to the provider is
\* a non-null pointer into a block that malloc returned.
C17_MallocFailureExits ==
    \A b \in Buffers :
        /\ b \in Handed => pool[b].bfr # NULL /\ pool[b].buffer # NULL
        /\ (pool[b].pc = "exited" /\ pool[b].bfr = NULL) =>
               aborted /\ pool[b].buffer = NULL /\ pool[b].size = 0

\* malloc failed for a request, and the process is gone.
C17_Witness ==
    \E b \in Buffers :
        /\ aborted /\ pool[b].pc = "exited" /\ pool[b].bfr = NULL
        /\ pool[b].freed = <<>> /\ Handed = {}

\* C18: the buffers handed to the provider and not yet released are pairwise
\* disjoint regions of memory.
C18_NoSharedBuffer ==
    \A b, c \in Outstanding :
        b # c => Disjoint(Usable(pool[b]), Usable(pool[c]))

\* C19: the extraction loop terminates: a callback that entered the loop comes to
\* its free and returns, having decoded each raw record of its buffer once (unless
\* the process exits meanwhile).
C19_LoopTerminates ==
    \A b \in Buffers :
        (pool[b].pc = "loop") ~>
            (aborted \/ (pool[b].pc = "returned" /\ pool[b].decoded = pool[b].total))

C19_Witness ==
    \E b \in Buffers :
        /\ ~aborted /\ pool[b].pc = "returned"
        /\ pool[b].total = MaxRaw /\ pool[b].decoded = MaxRaw

====
